---- MODULE Spec2Model ----
(***************************************************************************)
(* State-machine model of assets/js/form-validation.js (class              *)
(* FormValidator): rule derivation from markup, single-field validation,   *)
(* the submission gate, the simulated submission and the debounce timer.   *)
(*                                                                         *)
(* Strings the code inspects character by character (field values, the     *)
(* minlength attribute, label text) are sequences of one-character         *)
(* strings.  Time is counted in steps of DebounceWait ms.                   *)
(***************************************************************************)
EXTENDS Integers, Sequences, FiniteSets, TLC

\* ------------------------------------------------------------------ bounds
\* cap on the simulated submissions of one form that are in flight at once
MaxPending == 2

\* -------------------------------------------------------- program constants
DebounceWait == 500
SubmitDelay == 2000

\* One clock step is the debounce wait; the events between two clock steps
\* happen at any instants of that interval.
TimeStep == DebounceWait
DebounceSteps == DebounceWait \div TimeStep
SubmitSteps == SubmitDelay \div TimeStep

\* ------------------------------------------------------------ string helpers
Digits == {"0", "1", "2", "3", "4", "5", "6", "7", "8", "9"}
DigitVal(c) ==
  CASE c = "0" -> 0 [] c = "1" -> 1 [] c = "2" -> 2 [] c = "3" -> 3 [] c = "4" -> 4
    [] c = "5" -> 5 [] c = "6" -> 6 [] c = "7" -> 7 [] c = "8" -> 8 [] c = "9" -> 9

\* the regular-expression class \s, as far as the modelled alphabet goes
IsSpace(c) == c \in {" ", "\t", "\n"}

\* String.prototype.trim
trim(s) ==
  LET keep == {i \in 1..Len(s) : ~IsSpace(s[i])}
  IN IF keep = {} THEN <<>>
     ELSE SubSeq(s, CHOOSE i \in keep : \A j \in keep : i <= j,
                    CHOOSE i \in keep : \A j \in keep : i >= j)

\* a || b on strings: the empty string is falsy
OrElse(a, b) == IF a # <<>> THEN a ELSE b

\* String.prototype.replace(c, ''): removes the first occurrence only
replaceFirst(s, c) ==
  LET hits == {i \in 1..Len(s) : s[i] = c}
  IN IF hits = {} THEN s
     ELSE LET k == CHOOSE i \in hits : \A j \in hits : i <= j
          IN SubSeq(s, 1, k - 1) \o SubSeq(s, k + 1, Len(s))

\* parseInt(s): leading whitespace, an optional sign, then the longest run of
\* digits; NaN when there is none
RECURSIVE digitsValue(_, _)
digitsValue(s, acc) ==
  IF s = <<>> \/ Head(s) \notin Digits THEN acc
  ELSE digitsValue(Tail(s), 10 * acc + DigitVal(Head(s)))

RECURSIVE dropLeadingSpace(_)
dropLeadingSpace(s) ==
  IF s # <<>> /\ IsSpace(Head(s)) THEN dropLeadingSpace(Tail(s)) ELSE s

parseInt(s) ==
  LET t == dropLeadingSpace(s)
      neg == t # <<>> /\ Head(t) = "-"
      u == IF t # <<>> /\ Head(t) \in {"-", "+"} THEN Tail(t) ELSE t
  IN IF u = <<>> \/ Head(u) \notin Digits
       THEN [nan |-> TRUE, n |-> 0]
       ELSE [nan |-> FALSE, n |-> IF neg THEN 0 - digitsValue(u, 0) ELSE digitsValue(u, 0)]

\* value.length >= n, where n may be NaN (every comparison with NaN is false)
lengthAtLeast(value, n) == ~n.nan /\ Len(value) >= n.n

\* ------------------------------------------------------ regular expressions
\* /^[^\s@]+@[^\s@]+\.[^\s@]+$/.test(value)
emailRegexTest(value) ==
  \E i, j \in 1..Len(value) :
    /\ value[i] = "@"
    /\ value[j] = "."
    /\ i >= 2
    /\ j >= i + 2
    /\ j <= Len(value) - 1
    /\ \A k \in 1..Len(value) : k # i => ~IsSpace(value[k]) /\ value[k] # "@"

\* value.replace(/[\s\-\(\)]/g, '')
IsPhoneSeparator(c) == IsSpace(c) \/ c \in {"-", "(", ")"}
IsNotPhoneSeparator(c) == ~IsPhoneSeparator(c)
stripPhoneSeparators(value) == SelectSeq(value, IsNotPhoneSeparator)

\* /^[\+]?[1-9][\d]{0,15}$/.test(s)
phoneRegexTest(s) ==
  LET t == IF s # <<>> /\ Head(s) = "+" THEN Tail(s) ELSE s
  IN /\ Len(t) >= 1
     /\ Len(t) <= 16
     /\ t[1] \in Digits \ {"0"}
     /\ \A k \in 2..Len(t) : t[k] \in Digits

\* The pattern attributes of the modelled documents.  new RegExp(source)
\* throws a SyntaxError on PatUnterminated.
PatLower == "^[a-z]+$"
PatHasDigit == "[0-9]"
PatUnterminated == "("
RegExpCompiles(source) == source # PatUnterminated
Lower == {"a", "b", "c", "o", "s", "h", "r", "t"}
RegExpTest(source, value) ==
  CASE source = PatLower -> value # <<>> /\ \A k \in 1..Len(value) : value[k] \in Lower
    [] source = PatHasDigit -> \E k \in 1..Len(value) : value[k] \in Digits
    [] OTHER -> FALSE

\* the values a user types or pastes into a field
VEmpty == <<>>
VBlank == <<" ", " ">>
VShort == <<"s", "h", "o", "r", "t">>
VMail == <<" ", "a", "@", "b", ".", "c">>
VPhone == <<"(", "5", "5", "5", ")", " ", "1", "2", "3", "-", "4", "5", "6", "7">>
VLongMail == <<"a", "b", "@", "c", "d", ".", "e", "f">>

\* ------------------------------------------------------------ the documents
\* A document: its forms, its inputs, and (values) what its user may type.
\* An input/textarea/select element with the attributes the validator reads.
\* key is input.name || input.id; parent identifies input.parentNode.
BaseInput ==
  [form |-> 1, key |-> "", type |-> "text", required |-> FALSE,
   hasMinlength |-> FALSE, minlength |-> <<>>,
   hasPattern |-> FALSE, pattern |-> "", patternMessage |-> <<>>,
   dataFieldName |-> <<>>, label |-> <<>>, placeholder |-> <<>>,
   parent |-> 1, defaultValue |-> <<>>]

\* A form element: the data-validate marker, whether button[type="submit"]
\* matches a descendant, that button's label and data-original-text attribute
\* ("" when absent).
BaseForm ==
  [validate |-> TRUE, hasSubmitBtn |-> TRUE, btnText |-> "Submit", btnOriginalText |-> ""]

DocRegister ==
  [forms |-> << [BaseForm EXCEPT !.btnText = "Register Now"],
                [BaseForm EXCEPT !.validate = FALSE, !.btnText = "Search"] >>,
   inputs |-> <<
     [BaseInput EXCEPT !.key = "email", !.type = "email", !.required = TRUE,
                       !.label = <<"E", "m", "a", "i", "l", " ", "*">>, !.parent = 1],
     [BaseInput EXCEPT !.key = "phone", !.type = "tel", !.parent = 2] >>,
   values |-> {VEmpty, VMail}]

DocContact ==
  [forms |-> << [BaseForm EXCEPT !.btnText = "Send Message",
                                 !.btnOriginalText = "Send Message"] >>,
   inputs |-> <<
     [BaseInput EXCEPT !.key = "city", !.required = TRUE, !.parent = 1],
     [BaseInput EXCEPT !.key = "zip", !.required = TRUE, !.hasPattern = TRUE,
                       !.pattern = PatHasDigit,
                       !.patternMessage = <<"Digits only">>, !.parent = 1],
     [BaseInput EXCEPT !.key = "message", !.type = "textarea", !.required = TRUE,
                       !.hasMinlength = TRUE, !.minlength = <<"8">>,
                       !.placeholder = <<"Your message">>, !.parent = 2] >>,
   values |-> {VEmpty, VPhone}]

DocSurvey ==
  [forms |-> << [BaseForm EXCEPT !.hasSubmitBtn = FALSE] >>,
   inputs |-> <<
     [BaseInput EXCEPT !.required = TRUE, !.parent = 1],
     [BaseInput EXCEPT !.type = "email", !.hasMinlength = TRUE, !.minlength = <<"8">>,
                       !.parent = 2] >>,
   values |-> {VEmpty, VShort}]

DocBroken ==
  [forms |-> << BaseForm, [BaseForm EXCEPT !.btnText = "Subscribe"] >>,
   inputs |-> <<
     [BaseInput EXCEPT !.key = "name", !.required = TRUE, !.parent = 1],
     [BaseInput EXCEPT !.key = "zip", !.hasPattern = TRUE, !.pattern = PatUnterminated,
                       !.parent = 2],
     [BaseInput EXCEPT !.form = 2, !.key = "email", !.type = "email", !.parent = 3] >>,
   values |-> {VEmpty, VMail}]

DocNewsletter ==
  [forms |-> << [BaseForm EXCEPT !.btnText = "Subscribe"] >>,
   inputs |-> <<
     [BaseInput EXCEPT !.key = "email", !.type = "email", !.required = TRUE,
                       !.parent = 1] >>,
   values |-> {VEmpty, VMail}]

Docs == {DocRegister, DocContact, DocSurvey, DocBroken}

\* The documents with a submit button or with a form left to the browser, for
\* the properties of a submission running to its end.
SubmitDocs == {DocContact, DocNewsletter, DocBroken}

\* One-field documents with every combination of the attributes that activate
\* a rule, for the properties of rule derivation and single-field validation.
RuleValues == {VEmpty, VBlank, VShort, VMail, VLongMail, VPhone}
RuleDoc(req, email, minlength, pattern, phone) ==
  [forms |-> << [BaseForm EXCEPT !.btnText = "Save"],
                [BaseForm EXCEPT !.validate = FALSE] >>,
   inputs |-> <<
     [BaseInput EXCEPT !.key = IF phone THEN "phone" ELSE "field",
                       !.type = IF email THEN "email" ELSE "text",
                       !.required = req,
                       !.hasMinlength = minlength # <<>>, !.minlength = minlength,
                       !.hasPattern = pattern # "", !.pattern = pattern] >>,
   values |-> RuleValues]
RuleDocs ==
  {RuleDoc(req, email, minlength, pattern, phone) :
     req \in BOOLEAN, email \in BOOLEAN, minlength \in {<<>>, <<"8">>, <<"x">>},
     pattern \in {"", PatLower, PatHasDigit}, phone \in BOOLEAN}

\* ---------------------------------------------------------- rule derivation
NoMessage == [tmpl |-> "", arg |-> <<>>]
NaN == [nan |-> TRUE, n |-> 0]
Rule(type, num, regex, message) ==
  [type |-> type, num |-> num, regex |-> regex, message |-> message]

getRequiredMessage(input) ==
  LET fieldName == OrElse(input.dataFieldName,
                     OrElse(trim(replaceFirst(input.label, "*")),
                       OrElse(input.placeholder, <<"This field">>)))
  IN [tmpl |-> "${fieldName} is required", arg |-> fieldName]

\* new RegExp(input.getAttribute('pattern')) throws
getValidationRulesThrows(input) == input.hasPattern /\ ~RegExpCompiles(input.pattern)

getValidationRules(input) ==
  (IF input.required
     THEN <<Rule("required", NaN, "", getRequiredMessage(input))>> ELSE <<>>)
  \o (IF input.type = "email"
     THEN <<Rule("email", NaN, "",
                 [tmpl |-> "Please enter a valid email address", arg |-> <<>>])>>
     ELSE <<>>)
  \o (IF input.hasMinlength
     THEN <<Rule("minlength", parseInt(input.minlength), "",
                 [tmpl |-> "Minimum ${minlength} characters required",
                  arg |-> input.minlength])>>
     ELSE <<>>)
  \o (IF input.hasPattern
     THEN <<Rule("pattern", NaN, input.pattern,
                 IF input.patternMessage # <<>>
                   THEN [tmpl |-> "${data-pattern-message}", arg |-> input.patternMessage]
                   ELSE [tmpl |-> "Please match the requested format", arg |-> <<>>])>>
     ELSE <<>>)
  \o (IF input.key = "phone"
     THEN <<Rule("phone", NaN, "",
                 [tmpl |-> "Please enter a valid phone number", arg |-> <<>>])>>
     ELSE <<>>)

\* runValidationRule whose rules test the value even when it is empty
runValidationRuleOnEmpty(rule, value) ==
  CASE rule.type = "required" -> Len(value) > 0
    [] rule.type = "email" -> emailRegexTest(value)
    [] rule.type = "minlength" -> lengthAtLeast(value, rule.num)
    [] rule.type = "pattern" -> RegExpTest(rule.regex, value)
    [] rule.type = "phone" -> phoneRegexTest(stripPhoneSeparators(value))
    [] OTHER -> TRUE

\* runValidationRule(rule, value).isValid; the message returned is rule.message
runValidationRule(rule, value) ==
  CASE rule.type = "required" -> Len(value) > 0
    [] rule.type = "email" -> value = <<>> \/ emailRegexTest(value)
    [] rule.type = "minlength" -> value = <<>> \/ lengthAtLeast(value, rule.num)
    [] rule.type = "pattern" -> value = <<>> \/ RegExpTest(rule.regex, value)
    [] rule.type = "phone" -> value = <<>> \/ phoneRegexTest(stripPhoneSeparators(value))
    [] OTHER -> TRUE

\* the index of the first rule of rules that value fails, 0 when it passes all
\* (the for loop of validateField)
firstFailing(rules, value) ==
  LET bad == {i \in 1..Len(rules) : ~runValidationRule(rules[i], value)}
  IN IF bad = {} THEN 0 ELSE CHOOSE i \in bad : \A j \in bad : i <= j

\* ------------------------------------------------------ field state changes
\* A view s = [field, indicator] of the state the field operations change:
\* field[i] is fieldData.isValid and the two state classes of input i;
\* indicator[p] is the error and success element found or created in parent p.
\* clearFieldState that leaves the success element as it is
clearFieldStateKeepSuccess(s, inp, i) ==
  [field |-> [s.field EXCEPT ![i] = [isValid |-> FALSE, error |-> FALSE, success |-> FALSE]],
   indicator |-> [s.indicator EXCEPT ![inp[i].parent].errorDisplay = "none"]]

clearFieldState(s, inp, i) ==
  [field |-> [s.field EXCEPT ![i] = [isValid |-> FALSE, error |-> FALSE, success |-> FALSE]],
   indicator |-> [s.indicator EXCEPT ![inp[i].parent].errorDisplay = "none",
                                     ![inp[i].parent].successDisplay = "none"]]

\* setFieldError with errorElement.textContent += message
setFieldErrorAppend(s, inp, i, message) ==
  [field |-> [s.field EXCEPT ![i] = [isValid |-> FALSE, error |-> TRUE, success |-> FALSE]],
   indicator |-> [s.indicator EXCEPT
                    ![inp[i].parent].errorText =
                      [tmpl |-> message.tmpl, arg |-> @.arg \o <<@.tmpl>> \o message.arg],
                    ![inp[i].parent].errorDisplay = "block"]]

setFieldError(s, inp, i, message) ==
  [field |-> [s.field EXCEPT ![i] = [isValid |-> FALSE, error |-> TRUE, success |-> FALSE]],
   indicator |-> [s.indicator EXCEPT ![inp[i].parent].errorText = message,
                                     ![inp[i].parent].errorDisplay = "block"]]

setFieldSuccess(s, inp, i) ==
  [field |-> [s.field EXCEPT ![i] = [isValid |-> TRUE, error |-> FALSE, success |-> TRUE]],
   indicator |-> [s.indicator EXCEPT ![inp[i].parent].successDisplay = "block"]]

\* validateField that goes through every rule and keeps the last failure
validateFieldLastFailing(s, inp, rules, value, i) ==
  LET v == trim(value[i])
      cleared == clearFieldState(s, inp, i)
      bad == {k \in 1..Len(rules[i]) : ~runValidationRule(rules[i][k], v)}
  IN IF bad # {}
       THEN setFieldError(cleared, inp, i,
                          rules[i][CHOOSE k \in bad : \A j \in bad : k >= j].message)
     ELSE setFieldSuccess(cleared, inp, i)

\* validateField on element.value as it is, not trimmed
validateFieldNoTrim(s, inp, rules, value, i) ==
  LET cleared == clearFieldState(s, inp, i)
      k == firstFailing(rules[i], value[i])
  IN IF k # 0 THEN setFieldError(cleared, inp, i, rules[i][k].message)
     ELSE setFieldSuccess(cleared, inp, i)

\* validateField(fieldData): the state it leaves, and the boolean it returns
validateField(s, inp, rules, value, i) ==
  LET v == trim(value[i])
      cleared == clearFieldState(s, inp, i)
      k == firstFailing(rules[i], v)
  IN IF k # 0 THEN setFieldError(cleared, inp, i, rules[i][k].message)
     ELSE setFieldSuccess(cleared, inp, i)

validateFieldResult(rules, value, i) == firstFailing(rules[i], trim(value[i])) = 0

\* --------------------------------------------------------------- the state
VARIABLES
  doc,          \* the document the page was loaded with
  forms,        \* this.forms: the formData records pushed by initializeForm
  intercepting, \* the form elements that got the submit listener
  listening,    \* the inputs that got the blur and input listeners
  rules,        \* fieldData.rules of every input
  value,        \* element.value of every input
  field,        \* fieldData.isValid and the state classes of every input
  indicator,    \* the error and success element of every parent node
  focused,      \* document.activeElement: an input, or 0 for anything else
  btn,          \* textContent and disabled of each form's button[type="submit"]
  timeout,      \* the timeout variable of each input's debounce closure (0: none)
  pending,      \* the pending debounce timeouts of each input: [id, remaining]
  submitTimers, \* each form's pending submitForm timeouts, oldest first
  sinceInput,   \* steps since the last input event on each input (capped)
  debounced,    \* debounced validateField calls since that input event (capped)
  burst,        \* input events since the input's timeout was last idle (capped)
  fresh,        \* the forms reset by submitForm with no blur, input or submit since
  lastEvent     \* the event or timer callback that ran last

\* the page MainApp runs on, and the state MainApp changes
VARIABLES
  page,         \* the markup MainApp finds, and document.readyState at construction
  app,          \* nav--open, modal--active, lightbox--active, body.style.overflow,
                \* the lightbox image and this.currentLightboxImages / Index
  appEvent      \* the click or key MainApp handled last

formVars == <<doc, forms, intercepting, listening, rules, value, field, indicator, focused,
              btn, timeout, pending, submitTimers, sinceInput, debounced, burst, fresh,
              lastEvent>>
appVars == <<page, app, appEvent>>

\* what ThemeToggle reads and changes
VARIABLES
  env,          \* the markup ThemeToggle finds: .theme-toggle, .header__container
  stored,       \* localStorage item 'theme' (Null: no such item)
  prefersDark,  \* matchMedia('(prefers-color-scheme: dark)').matches
  rootClasses,  \* the theme classes of document.documentElement
  currentTheme, \* this.currentTheme
  toggleLabel,  \* aria-label of this.toggleButton (Null: this.toggleButton unset)
  toggled,      \* toggleTheme has run since the page was loaded
  themeEvent    \* the event ThemeToggle handled last, and the state before it

themeVars == <<env, stored, prefersDark, rootClasses, currentTheme, toggleLabel, toggled,
               themeEvent>>
vars == <<formVars, appVars, themeVars>>

\* -------------------------------------------------------------- MainApp
\* A page: whether it has .nav-toggle and .nav--mobile, how many modals its
\* triggers name, the data-lightbox values of its triggers in document order,
\* and whether the document was still loading when MainApp was constructed
\* (then initializeComponents runs on DOMContentLoaded, after
\* setupMobileNavigation; otherwise before it).
BasePage == [hasNav |-> TRUE, modals |-> 2, images |-> <<"a.jpg", "b.jpg", "c.jpg">>,
             loading |-> FALSE]
Pages ==
  {BasePage,
   [BasePage EXCEPT !.loading = TRUE],
   [BasePage EXCEPT !.images = <<"a.jpg", "b.jpg", "a.jpg">>],
   [BasePage EXCEPT !.hasNav = FALSE, !.images = <<"a.jpg">>],
   [BasePage EXCEPT !.modals = 1, !.images = <<>>, !.loading = TRUE]}

ModalIds(pg) == 1..pg.modals

\* Array.prototype.indexOf: the first index, from 0, or -1
indexOf(seq, x) ==
  IF \E k \in 1..Len(seq) : seq[k] = x
    THEN (CHOOSE k \in 1..Len(seq) : seq[k] = x /\ \A j \in 1..(k - 1) : seq[j] # x) - 1
    ELSE -1

\* seq[index] of JavaScript: undefined outside the array
Undefined == "undefined"
at(seq, index) == IF index + 1 \in 1..Len(seq) THEN seq[index + 1] ELSE Undefined

openMobileNav(a) == [a EXCEPT !.navOpen = TRUE, !.overflow = "hidden"]
closeMobileNav(a) == [a EXCEPT !.navOpen = FALSE, !.overflow = ""]

\* openModal(modalId): nothing when no element has that id (m = 0)
openModal(pg, a, m) ==
  IF m \in ModalIds(pg)
    THEN [a EXCEPT !.activeModals = @ \cup {m}, !.overflow = "hidden"]
    ELSE a

\* closeModal(): the first .modal--active of the document
closeModal(a) ==
  IF a.activeModals # {}
    THEN LET first == CHOOSE m \in a.activeModals : \A n \in a.activeModals : m <= n
         IN [a EXCEPT !.activeModals = @ \ {first}, !.overflow = ""]
    ELSE a

openLightbox(pg, a, imageSrc) ==
  [a EXCEPT !.src = imageSrc, !.lightboxActive = TRUE, !.overflow = "hidden",
            !.currentLightboxImages = pg.images,
            !.currentLightboxIndex = indexOf(pg.images, imageSrc)]

closeLightbox(a) == [a EXCEPT !.lightboxActive = FALSE, !.overflow = ""]

\* lightboxNav that steps past the ends of the list
lightboxNavNoWrap(a, direction) ==
  IF Len(a.currentLightboxImages) <= 1 THEN a
  ELSE LET index == IF direction = "next" THEN a.currentLightboxIndex + 1
                    ELSE a.currentLightboxIndex - 1
       IN [a EXCEPT !.currentLightboxIndex = index,
                    !.src = at(a.currentLightboxImages, index)]

lightboxNav(a, direction) ==
  IF Len(a.currentLightboxImages) <= 1 THEN a
  ELSE LET n == Len(a.currentLightboxImages)
           index == IF direction = "next" THEN (a.currentLightboxIndex + 1) % n
                    ELSE IF a.currentLightboxIndex = 0 THEN n - 1
                    ELSE a.currentLightboxIndex - 1
       IN [a EXCEPT !.currentLightboxIndex = index,
                    !.src = at(a.currentLightboxImages, index)]

\* A click target: what the element is, the modal it names, the data-lightbox
\* trigger it is, and whether it lies inside .header.
Target(kind, modal, image, inHeader) ==
  [kind |-> kind, modal |-> modal, image |-> image, inHeader |-> inHeader]

\* the listeners registered on the clicked element itself, run before those
\* registered on document
elementClickListeners(a, t) ==
  CASE t.kind = "navToggle" -> IF a.navOpen THEN closeMobileNav(a) ELSE openMobileNav(a)
    [] t.kind = "navLink" -> closeMobileNav(a)
    [] t.kind \in {"lightboxClose", "lightboxBackdrop"} -> closeLightbox(a)
    [] t.kind = "lightboxPrev" -> lightboxNav(a, "prev")
    [] t.kind = "lightboxNext" -> lightboxNav(a, "next")
    [] OTHER -> a

\* the click listener of setupMobileNavigation on document (click outside)
navClickOutside(pg, a, t) ==
  IF pg.hasNav /\ ~t.inHeader /\ a.navOpen THEN closeMobileNav(a) ELSE a

\* the two click listeners of initializeModals on document
modalClickListeners(pg, a, t) ==
  LET a1 == IF t.kind = "modalTrigger" THEN openModal(pg, a, t.modal) ELSE a
      a2 == IF t.kind = "modalClose" THEN closeModal(a1) ELSE a1
  IN IF t.kind = "modalBackdrop" THEN closeModal(a2) ELSE a2

\* the click listener of initializeLightbox on document
lightboxTriggerListener(pg, a, t) ==
  IF t.kind = "lightboxTrigger" THEN openLightbox(pg, a, pg.images[t.image]) ELSE a

\* a click: the element's listeners, then those on document in the order they
\* were registered
click(pg, a, t) ==
  LET a0 == elementClickListeners(a, t)
  IN IF pg.loading
       THEN lightboxTriggerListener(pg, modalClickListeners(pg, navClickOutside(pg, a0, t), t), t)
       ELSE navClickOutside(pg, lightboxTriggerListener(pg, modalClickListeners(pg, a0, t), t), t)

\* the keydown listeners on document
modalKeydown(a, key) == IF key = "Escape" THEN closeModal(a) ELSE a
lightboxKeydown(a, key) ==
  IF ~a.lightboxActive THEN a
  ELSE CASE key = "Escape" -> closeLightbox(a)
         [] key = "ArrowLeft" -> lightboxNav(a, "prev")
         [] key = "ArrowRight" -> lightboxNav(a, "next")
         [] OTHER -> a
navKeydown(pg, a, key) ==
  IF pg.hasNav /\ key = "Escape" /\ a.navOpen THEN closeMobileNav(a) ELSE a

keydown(pg, a, key) ==
  IF pg.loading
    THEN lightboxKeydown(modalKeydown(navKeydown(pg, a, key), key), key)
    ELSE navKeydown(pg, lightboxKeydown(modalKeydown(a, key), key), key)

\* MainApp after construction and DOMContentLoaded
InitMainApp(P) ==
  /\ page \in P
  /\ app = [navOpen |-> FALSE, activeModals |-> {}, lightboxActive |-> FALSE,
            overflow |-> "", src |-> "", currentLightboxImages |-> <<>>,
            currentLightboxIndex |-> -1]
  /\ appEvent = "load"

\* the user clicks target t
Click(t) ==
  /\ app' = click(page, app, t)
  /\ appEvent' = t.kind
  /\ UNCHANGED <<page, formVars, themeVars>>

NavToggleClick == page.hasNav /\ Click(Target("navToggle", 0, 0, TRUE))
\* a link of the drawer, which shows its links while it is open
NavLinkClick == page.hasNav /\ app.navOpen /\ Click(Target("navLink", 0, 0, TRUE))
\* a click on nothing in particular, outside the header
PageClick == Click(Target("page", 0, 0, FALSE))
ModalTriggerClick(m, inHeader) == Click(Target("modalTrigger", m, 0, inHeader))
\* the close button and the backdrop of a modal that is shown
ModalCloseClick == app.activeModals # {} /\ Click(Target("modalClose", 0, 0, FALSE))
ModalBackdropClick == app.activeModals # {} /\ Click(Target("modalBackdrop", 0, 0, FALSE))
LightboxTriggerClick(k) == Click(Target("lightboxTrigger", 0, k, FALSE))
\* the controls of the lightbox while it is shown
LightboxCloseClick == app.lightboxActive /\ Click(Target("lightboxClose", 0, 0, FALSE))
LightboxBackdropClick == app.lightboxActive /\ Click(Target("lightboxBackdrop", 0, 0, FALSE))
LightboxNavClick(direction) ==
  app.lightboxActive
    /\ Click(Target(IF direction = "next" THEN "lightboxNext" ELSE "lightboxPrev", 0, 0, FALSE))

KeyDown(key) ==
  /\ app' = keydown(page, app, key)
  /\ appEvent' = key
  /\ UNCHANGED <<page, formVars, themeVars>>

NextApp ==
  \/ NavToggleClick
  \/ NavLinkClick
  \/ PageClick
  \/ \E m \in ModalIds(page), inHeader \in BOOLEAN : ModalTriggerClick(m, inHeader)
  \/ ModalCloseClick
  \/ ModalBackdropClick
  \/ \E k \in 1..Len(page.images) : LightboxTriggerClick(k)
  \/ LightboxCloseClick
  \/ LightboxBackdropClick
  \/ \E direction \in {"prev", "next"} : LightboxNavClick(direction)
  \/ \E key \in {"Escape", "ArrowLeft", "ArrowRight"} : KeyDown(key)

\* ---------------------------------------------------------- ThemeToggle
\* localStorage.getItem of a key that is not stored, and an unset property
Null == "null"

ThemeClasses == {"theme--dark", "theme--light"}

\* What ThemeToggle finds when it is constructed: a .theme-toggle in the
\* markup or none, a .header__container or none, the theme classes the markup
\* puts on the root element, the item an earlier visit left in localStorage
\* (setStoredTheme is the only writer of the key), the system preference.
Envs ==
  [existingButton : BOOLEAN, headerContainer : BOOLEAN, rootClasses : SUBSET ThemeClasses,
   stored : {Null, "light", "dark"}, prefersDark : BOOLEAN]
BaseEnv ==
  [existingButton |-> FALSE, headerContainer |-> TRUE, rootClasses |-> {},
   stored |-> Null, prefersDark |-> FALSE]

\* a || b on a value that is a non-empty string or null
orElse(a, b) == IF a = Null THEN b ELSE a

getPreferredTheme(matches) == IF matches THEN "dark" ELSE "light"

\* updateToggleButton(): the label of this.toggleButton, when it is set
updateToggleButton(label, theme) ==
  IF label = Null THEN Null
  ELSE IF theme = "dark" THEN "Switch to light theme" ELSE "Switch to dark theme"

\* applyTheme that adds the class of the theme and removes none
applyThemeNoRemove(th, theme) ==
  [th EXCEPT !.rootClasses = IF theme = "dark" THEN @ \cup {"theme--dark"}
                             ELSE @ \cup {"theme--light"},
             !.currentTheme = theme,
             !.toggleLabel = updateToggleButton(@, theme)]

\* applyTheme(theme) on th = [rootClasses, currentTheme, toggleLabel, stored]
applyTheme(th, theme) ==
  [th EXCEPT !.rootClasses = IF theme = "dark"
                               THEN (@ \cup {"theme--dark"}) \ {"theme--light"}
                               ELSE (@ \cup {"theme--light"}) \ {"theme--dark"},
             !.currentTheme = theme,
             !.toggleLabel = updateToggleButton(@, theme)]

\* toggleTheme(): applyTheme(newTheme), then setStoredTheme(newTheme)
toggleTheme(th) ==
  LET newTheme == IF th.currentTheme = "dark" THEN "light" ELSE "dark"
  IN [applyTheme(th, newTheme) EXCEPT !.stored = newTheme]

\* the change listener that applies the preference whatever is stored
schemeListenerAlways(th, matches) == applyTheme(th, getPreferredTheme(matches))

\* the change listener of matchMedia('(prefers-color-scheme: dark)')
schemeListener(th, matches) ==
  IF th.stored = Null THEN applyTheme(th, getPreferredTheme(matches)) ELSE th

\* createToggleButton(): this.toggleButton is set only when the button is created
createToggleButton(e, th) ==
  IF e.existingButton THEN th
  ELSE [th EXCEPT !.toggleLabel = updateToggleButton("", th.currentTheme)]

\* new ThemeToggle() in environment e
constructed(e) ==
  LET th0 == [rootClasses |-> e.rootClasses,
              currentTheme |-> orElse(e.stored, getPreferredTheme(e.prefersDark)),
              toggleLabel |-> Null, stored |-> e.stored]
  IN createToggleButton(e, applyTheme(th0, th0.currentTheme))

Theme == [rootClasses |-> rootClasses, currentTheme |-> currentTheme,
          toggleLabel |-> toggleLabel, stored |-> stored]

ThemeEvent(type) ==
  [type |-> type, stored |-> stored, currentTheme |-> currentTheme,
   rootClasses |-> rootClasses]

InitThemeToggle(E) ==
  /\ env \in E
  /\ stored = constructed(env).stored
  /\ prefersDark = env.prefersDark
  /\ rootClasses = constructed(env).rootClasses
  /\ currentTheme = constructed(env).currentTheme
  /\ toggleLabel = constructed(env).toggleLabel
  /\ toggled = FALSE
  /\ themeEvent = [type |-> "load", stored |-> env.stored, currentTheme |-> Null,
                   rootClasses |-> env.rootClasses]

\* th becomes the state of ThemeToggle
ThemeBecomes(th) ==
  /\ stored' = th.stored
  /\ rootClasses' = th.rootClasses
  /\ currentTheme' = th.currentTheme
  /\ toggleLabel' = th.toggleLabel

\* a click on .theme-toggle; MainApp's click listeners see the click too. A
\* created button lies in the header when it was appended to
\* .header__container, a button of the markup lies where the markup puts it.
ToggleClick ==
  /\ ThemeBecomes(toggleTheme(Theme))
  /\ toggled' = TRUE
  /\ themeEvent' = ThemeEvent("click")
  /\ \E inHeader \in (IF env.existingButton THEN BOOLEAN ELSE {env.headerContainer}) :
        app' = click(page, app, Target("themeToggle", 0, 0, inHeader))
  /\ appEvent' = "themeToggle"
  /\ UNCHANGED <<env, prefersDark, page, formVars>>

\* Ctrl/Cmd + Shift + D
ToggleShortcut ==
  /\ ThemeBecomes(toggleTheme(Theme))
  /\ toggled' = TRUE
  /\ themeEvent' = ThemeEvent("shortcut")
  /\ UNCHANGED <<env, prefersDark, appVars, formVars>>

\* the system colour scheme preference changes
SchemeChange ==
  /\ prefersDark' = ~prefersDark
  /\ ThemeBecomes(schemeListener(Theme, ~prefersDark))
  /\ themeEvent' = ThemeEvent("change")
  /\ UNCHANGED <<env, toggled, appVars, formVars>>

NextTheme ==
  \/ ToggleClick
  \/ ToggleShortcut
  \/ SchemeChange

InputIds(d) == 1..Len(d.inputs)
FormIds(d) == 1..Len(d.forms)
Parents(d) == {d.inputs[i].parent : i \in InputIds(d)}

\* form.querySelectorAll('input, textarea, select'), in document order
InputsOf(d, f) ==
  LET InForm(i) == d.inputs[i].form = f
  IN SelectSeq([i \in InputIds(d) |-> i], InForm)

\* Map.prototype.set: a key that is present keeps its place and gets the new value
mapSet(m, key, i) ==
  IF \E k \in 1..Len(m) : m[k].key = key
    THEN [k \in 1..Len(m) |-> IF m[k].key = key THEN [key |-> key, input |-> i] ELSE m[k]]
    ELSE Append(m, [key |-> key, input |-> i])

RECURSIVE initializeFields(_, _, _)
initializeFields(d, seq, m) ==
  IF seq = <<>> THEN m
  ELSE initializeFields(d, Tail(seq), mapSet(m, d.inputs[Head(seq)].key, Head(seq)))

\* initializeForm(form) throws: some descendant's rule construction throws
initializeFormThrows(d, f) ==
  \E k \in 1..Len(InputsOf(d, f)) : getValidationRulesThrows(d.inputs[InputsOf(d, f)[k]])

\* the formData initializeForm builds when no initializeField throws
initializeForm(d, f) ==
  [element |-> f, fields |-> initializeFields(d, InputsOf(d, f), <<>>), isValid |-> FALSE]

\* document.querySelectorAll('form[data-validate]'), in document order
ValidatedForms(d) ==
  LET Marked(f) == d.forms[f].validate
  IN SelectSeq([f \in FormIds(d) |-> f], Marked)

\* setupFormValidation: the forms whose initializeForm ran to its end; the
\* forEach stops at the first form whose initialization throws
InitializedForms(d) ==
  LET vf == ValidatedForms(d)
      Done(f) == \A k \in 1..Len(vf) : vf[k] <= f => ~initializeFormThrows(d, vf[k])
  IN SelectSeq(vf, Done)

\* the inputs whose initializeField ran to its end (listeners attached)
InitializedInputs(d) ==
  {i \in InputIds(d) :
     /\ d.forms[d.inputs[i].form].validate
     /\ \A k \in 1..Len(ValidatedForms(d)) :
          ValidatedForms(d)[k] < d.inputs[i].form
            => ~initializeFormThrows(d, ValidatedForms(d)[k])
     /\ \A j \in InputIds(d) :
          (d.inputs[j].form = d.inputs[i].form /\ j <= i)
            => ~getValidationRulesThrows(d.inputs[j])}

FormData(fs, f) == fs[CHOOSE k \in 1..Len(fs) : fs[k].element = f]

NoEvent ==
  [type |-> "load", form |-> 0, input |-> 0, prevented |-> FALSE, submitted |-> FALSE,
   btnBefore |-> [textContent |-> "", disabled |-> FALSE], pendingBefore |-> 0,
   before |-> "", originalText |-> ""]
Event(type, f, i) == [NoEvent EXCEPT !.type = type, !.form = f, !.input = i]

\* the state of a field as the user sees it on input i
FieldStateName(s, i) ==
  IF s.field[i].isValid THEN "valid"
  ELSE IF s.field[i].error THEN "invalid" ELSE "neutral"

InitFormValidator(D) ==
  /\ doc \in D
  /\ forms = [k \in 1..Len(InitializedForms(doc)) |->
                initializeForm(doc, InitializedForms(doc)[k])]
  /\ intercepting = {InitializedForms(doc)[k] : k \in 1..Len(InitializedForms(doc))}
  /\ listening = InitializedInputs(doc)
  /\ rules = [i \in InputIds(doc) |->
                IF i \in InitializedInputs(doc) THEN getValidationRules(doc.inputs[i])
                ELSE <<>>]
  /\ value = [i \in InputIds(doc) |-> doc.inputs[i].defaultValue]
  /\ field = [i \in InputIds(doc) |-> [isValid |-> FALSE, error |-> FALSE, success |-> FALSE]]
  /\ indicator = [p \in Parents(doc) |->
                    [errorDisplay |-> "", errorText |-> NoMessage, successDisplay |-> ""]]
  /\ focused = 0
  /\ btn = [f \in FormIds(doc) |-> [textContent |-> doc.forms[f].btnText, disabled |-> FALSE]]
  /\ timeout = [i \in InputIds(doc) |-> 0]
  /\ pending = [i \in InputIds(doc) |-> {}]
  /\ submitTimers = [f \in FormIds(doc) |-> <<>>]
  /\ sinceInput = [i \in InputIds(doc) |-> DebounceSteps + 1]
  /\ debounced = [i \in InputIds(doc) |-> 0]
  /\ burst = [i \in InputIds(doc) |-> 0]
  /\ fresh = [f \in FormIds(doc) |-> FALSE]
  /\ lastEvent = NoEvent

\* the page loaded: FormValidator on document D, MainApp on its page,
\* ThemeToggle in its environment
InitWith(D) == InitFormValidator(D) /\ InitMainApp({BasePage}) /\ InitThemeToggle({BaseEnv})

Init == InitWith(Docs)

\* ----------------------------------------------------------------- handlers
View == [field |-> field, indicator |-> indicator]

\* the blur listener of the element that loses focus (line 56)
dispatchBlur(s, old) ==
  IF old # 0 /\ old \in listening THEN validateField(s, doc.inputs, rules, value, old)
  ELSE s

\* the clearing listener registered for another event than input
inputListenerOnChange(s, i) == s

\* the input listener every initialized input gets (line 57)
inputListener(s, i) ==
  IF i \in listening THEN clearFieldState(s, doc.inputs, i) ELSE s

\* validateForm(formData): validateField on every entry of the Map, in order
RECURSIVE validateEntries(_, _)
validateEntries(s, entries) ==
  IF entries = <<>> THEN s
  ELSE validateEntries(validateField(s, doc.inputs, rules, value, Head(entries).input),
                       Tail(entries))

validateForm(s, formData) == validateEntries(s, formData.fields)

validateFormResult(formData) ==
  \A k \in 1..Len(formData.fields) :
    validateFieldResult(rules, value, formData.fields[k].input)

\* Array.from(formData.fields.values()).find(field => !field.isValid): the
\* input of the first such entry, 0 when there is none
firstInvalidField(s, formData) ==
  LET bad == {k \in 1..Len(formData.fields) : ~s.field[formData.fields[k].input].isValid}
  IN IF bad = {} THEN 0
     ELSE formData.fields[CHOOSE k \in bad : \A j \in bad : k <= j].input

\* element.focus(): the element that had the focus gets its blur event first
focusElement(s, target) ==
  IF target = focused THEN s ELSE dispatchBlur(s, focused)

\* submitForm(formData), up to the setTimeout call; the timeout is recorded with
\* the originalText the code reads from the button (line 271)
submitForm(f) ==
  [btn |-> IF doc.forms[f].hasSubmitBtn
             THEN [btn EXCEPT ![f] = [textContent |-> "Submitting...", disabled |-> TRUE]]
             ELSE btn,
   submitTimers |-> [submitTimers EXCEPT ![f] =
                       Append(@, [remaining |-> SubmitSteps,
                                  originalText |-> btn[f].textContent])]]

\* handleSubmit that calls submitForm whatever validateForm returned
handleSubmitNoGate(f) ==
  [view |-> validateForm(View, FormData(forms, f)), focused |-> focused,
   btn |-> submitForm(f).btn, submitTimers |-> submitForm(f).submitTimers,
   submitted |-> TRUE]

\* handleSubmit(formData): every variable it may change, and whether it took
\* the submitForm branch
handleSubmit(f) ==
  LET formData == FormData(forms, f)
      s1 == validateForm(View, formData)
      isValid == validateFormResult(formData)
      target == firstInvalidField(s1, formData)
  IN IF isValid
       THEN [view |-> s1, focused |-> focused, btn |-> submitForm(f).btn,
             submitTimers |-> submitForm(f).submitTimers, submitted |-> TRUE]
       ELSE IF target # 0
         THEN [view |-> focusElement(s1, target), focused |-> target, btn |-> btn,
               submitTimers |-> submitTimers, submitted |-> FALSE]
         ELSE [view |-> s1, focused |-> focused, btn |-> btn,
               submitTimers |-> submitTimers, submitted |-> FALSE]

\* the setTimeout callback of submitForm: form.reset(), clearFieldState on
\* every entry of the Map, the submit button restored
RECURSIVE clearEntries(_, _)
clearEntries(s, entries) ==
  IF entries = <<>> THEN s
  ELSE clearEntries(clearFieldState(s, doc.inputs, Head(entries).input), Tail(entries))

formReset(f) ==
  [i \in InputIds(doc) |-> IF doc.inputs[i].form = f THEN doc.inputs[i].defaultValue
                           ELSE value[i]]

\* the callback that restores the label and leaves the button disabled
restoredButtonDisabled(f) ==
  [textContent |-> IF doc.forms[f].btnOriginalText # "" THEN doc.forms[f].btnOriginalText
                   ELSE "Submit",
   disabled |-> TRUE]

restoredButton(f) ==
  [textContent |-> IF doc.forms[f].btnOriginalText # "" THEN doc.forms[f].btnOriginalText
                   ELSE "Submit",
   disabled |-> FALSE]

\* executedFunction without its clearTimeout(timeout)
executedFunctionNoClear(pend, tmo) ==
  LET id == CHOOSE n \in 1..(Cardinality(pend) + 1) : \A x \in pend : x.id # n
  IN [pending |-> pend \cup {[id |-> id, remaining |-> DebounceSteps]}, timeout |-> id]

\* debounce(func, wait): what a call of executedFunction does to the pending
\* timeouts of the input and to the closure's timeout variable
executedFunction(pend, tmo) ==
  LET cleared == {x \in pend : x.id # tmo}
      id == CHOOSE n \in 1..(Cardinality(cleared) + 1) : \A x \in cleared : x.id # n
  IN [pending |-> cleared \cup {[id |-> id, remaining |-> DebounceSteps]}, timeout |-> id]

\* later(): clearTimeout(timeout), then func(...args)
later(pend, tmo, fired) == {x \in pend : x.id # tmo /\ x.id # fired}

Capped(n, cap) == IF n < cap THEN n + 1 ELSE cap

\* ------------------------------------------------------------------ actions
\* the focus moves from the focused element to t (0: outside the tracked inputs)
FocusChange(t) ==
  /\ t # focused
  /\ LET s == dispatchBlur(View, focused)
     IN /\ field' = s.field
        /\ indicator' = s.indicator
  /\ focused' = t
  /\ lastEvent' = IF focused # 0
                    THEN [Event("blur", doc.inputs[focused].form, focused)
                            EXCEPT !.before = FieldStateName(View, focused)]
                    ELSE Event("focus", doc.inputs[t].form, t)
  /\ fresh' = IF focused # 0 THEN [fresh EXCEPT ![doc.inputs[focused].form] = FALSE]
               ELSE fresh
  /\ UNCHANGED <<doc, forms, intercepting, listening, rules, value, btn, timeout, pending,
                 submitTimers, sinceInput, debounced, burst>>
  /\ UNCHANGED <<appVars, themeVars>>

\* an input event on the focused input i, whose value becomes v
Input(i, v) ==
  /\ focused = i
  /\ v # value[i]
  /\ value' = [value EXCEPT ![i] = v]
  /\ LET s == inputListener(View, i)
     IN /\ field' = s.field
        /\ indicator' = s.indicator
  /\ IF i \in listening /\ doc.inputs[i].type = "email"
       THEN /\ pending' = [pending EXCEPT ![i] = executedFunction(pending[i], timeout[i]).pending]
            /\ timeout' = [timeout EXCEPT ![i] = executedFunction(pending[i], timeout[i]).timeout]
            /\ sinceInput' = [sinceInput EXCEPT ![i] = 0]
            /\ debounced' = [debounced EXCEPT ![i] = 0]
            /\ burst' = [burst EXCEPT ![i] = IF pending[i] # {} THEN Capped(@, 2) ELSE 1]
       ELSE UNCHANGED <<pending, timeout, sinceInput, debounced, burst>>
  /\ lastEvent' = [Event("input", doc.inputs[i].form, i)
                     EXCEPT !.before = FieldStateName(View, i)]
  /\ fresh' = [fresh EXCEPT ![doc.inputs[i].form] = FALSE]
  /\ UNCHANGED <<doc, forms, intercepting, listening, rules, focused, btn, submitTimers>>
  /\ UNCHANGED <<appVars, themeVars>>

\* a change event on the focused input i: the code registers no listener for it
Change(i) ==
  /\ focused = i
  /\ lastEvent' = [Event("change", doc.inputs[i].form, i)
                     EXCEPT !.before = FieldStateName(View, i)]
  /\ UNCHANGED <<doc, forms, intercepting, listening, rules, value, field, indicator,
                 focused, btn, timeout, pending, submitTimers, sinceInput, debounced, burst,
                 fresh>>
  /\ UNCHANGED <<appVars, themeVars>>

\* The browser fires a submit event through a submit control that is enabled:
\* a form whose only submit control is the button submitForm disables cannot
\* be submitted while that button is disabled.  A form in which
\* button[type="submit"] matches nothing is submitted by another control.
canSubmit(f) == doc.forms[f].hasSubmitBtn => ~btn[f].disabled

\* a submit event on a form with the listener of initializeForm
Submit(f) ==
  /\ f \in intercepting
  /\ canSubmit(f)
  /\ validateFormResult(FormData(forms, f)) => Len(submitTimers[f]) < MaxPending
  /\ LET r == handleSubmit(f)
     IN /\ field' = r.view.field
        /\ indicator' = r.view.indicator
        /\ focused' = r.focused
        /\ btn' = r.btn
        /\ submitTimers' = r.submitTimers
        /\ lastEvent' = [Event("submit", f, 0) EXCEPT
                           !.prevented = TRUE, !.submitted = r.submitted,
                           !.btnBefore = btn[f], !.pendingBefore = Len(submitTimers[f])]
  /\ fresh' = [g \in FormIds(doc) |->
                 IF g = f \/ (focused # 0 /\ doc.inputs[focused].form = g) THEN FALSE
                 ELSE fresh[g]]
  /\ UNCHANGED <<doc, forms, intercepting, listening, rules, value, timeout, pending,
                 sinceInput, debounced, burst>>
  /\ UNCHANGED <<appVars, themeVars>>

\* a submit event on a form without that listener: the browser submits it
NativeSubmit(f) ==
  /\ f \notin intercepting
  /\ lastEvent' = Event("submit", f, 0)
  /\ UNCHANGED <<doc, forms, intercepting, listening, rules, value, field, indicator,
                 focused, btn, timeout, pending, submitTimers, sinceInput, debounced, burst,
                 fresh>>
  /\ UNCHANGED <<appVars, themeVars>>

NoTimerDue ==
  /\ \A i \in InputIds(doc) : \A x \in pending[i] : x.remaining > 0
  /\ \A f \in FormIds(doc) : \A k \in 1..Len(submitTimers[f]) : submitTimers[f][k].remaining > 0

\* one step of time passes; a timeout that is due runs before the next step
Tick ==
  /\ NoTimerDue
  /\ \/ \E i \in InputIds(doc) : pending[i] # {}
     \/ \E f \in FormIds(doc) : submitTimers[f] # <<>>
  /\ pending' = [i \in InputIds(doc) |->
                   {[id |-> x.id, remaining |-> x.remaining - 1] : x \in pending[i]}]
  /\ submitTimers' = [f \in FormIds(doc) |->
                        [k \in 1..Len(submitTimers[f]) |->
                           [submitTimers[f][k] EXCEPT !.remaining = @ - 1]]]
  /\ sinceInput' = [i \in InputIds(doc) |-> Capped(sinceInput[i], DebounceSteps + 1)]
  /\ lastEvent' = Event("tick", 0, 0)
  /\ UNCHANGED <<doc, forms, intercepting, listening, rules, value, field, indicator,
                 focused, btn, timeout, debounced, burst, fresh>>
  /\ UNCHANGED <<appVars, themeVars>>

\* a debounce timeout of input i is due: later() runs
DebounceFire(i) ==
  /\ \E x \in pending[i] :
       /\ x.remaining = 0
       /\ pending' = [pending EXCEPT ![i] = later(pending[i], timeout[i], x.id)]
  /\ LET s == validateField(View, doc.inputs, rules, value, i)
     IN /\ field' = s.field
        /\ indicator' = s.indicator
  /\ debounced' = [debounced EXCEPT ![i] = Capped(@, 2)]
  /\ lastEvent' = Event("debounce", doc.inputs[i].form, i)
  /\ UNCHANGED <<doc, forms, intercepting, listening, rules, value, focused, btn, timeout,
                 submitTimers, sinceInput, burst, fresh>>
  /\ UNCHANGED <<appVars, themeVars>>

\* the oldest submitForm timeout of form f is due: its callback runs
SubmitTimerFire(f) ==
  /\ submitTimers[f] # <<>>
  /\ Head(submitTimers[f]).remaining = 0
  /\ value' = formReset(f)
  /\ LET s == clearEntries(View, FormData(forms, f).fields)
     IN /\ field' = s.field
        /\ indicator' = s.indicator
  /\ btn' = IF doc.forms[f].hasSubmitBtn THEN [btn EXCEPT ![f] = restoredButton(f)] ELSE btn
  /\ submitTimers' = [submitTimers EXCEPT ![f] = Tail(@)]
  /\ lastEvent' = [Event("submitted", f, 0) EXCEPT
                     !.originalText = Head(submitTimers[f]).originalText]
  /\ fresh' = [fresh EXCEPT ![f] = TRUE]
  /\ UNCHANGED <<doc, forms, intercepting, listening, rules, focused, timeout, pending,
                 sinceInput, debounced, burst>>
  /\ UNCHANGED <<appVars, themeVars>>

Next ==
  \/ \E t \in InputIds(doc) \cup {0} : FocusChange(t)
  \/ \E i \in InputIds(doc), v \in doc.values : Input(i, v)
  \/ \E i \in InputIds(doc) : Change(i)
  \/ \E f \in FormIds(doc) : Submit(f)
  \/ \E f \in FormIds(doc) : NativeSubmit(f)
  \/ Tick
  \/ \E i \in InputIds(doc) : DebounceFire(i)
  \/ \E f \in FormIds(doc) : SubmitTimerFire(f)

Spec == Init /\ [][Next]_vars

\* the field-level events on the one-field documents
InitRules == InitWith(RuleDocs)
NextRules ==
  \/ \E t \in InputIds(doc) \cup {0} : FocusChange(t)
  \/ \E i \in InputIds(doc), v \in doc.values : Input(i, v)
  \/ Tick
  \/ \E i \in InputIds(doc) : DebounceFire(i)
SpecRules == InitRules /\ [][NextRules]_vars

\* The event loop runs a timeout that is due, and time passes.
AllInputIds == UNION {InputIds(d) : d \in Docs}
AllFormIds == UNION {FormIds(d) : d \in Docs}
Fairness ==
  /\ WF_vars(Tick)
  /\ \A i \in AllInputIds : WF_vars(i \in InputIds(doc) /\ DebounceFire(i))
  /\ \A f \in AllFormIds : WF_vars(f \in FormIds(doc) /\ SubmitTimerFire(f))

FairSpec == Init /\ [][Next]_vars /\ Fairness

InitSubmit == InitWith(SubmitDocs)
FairSpecSubmit == InitSubmit /\ [][Next]_vars /\ Fairness

\* MainApp on every page, on a document whose forms are left alone
InitApp ==
  InitFormValidator({DocNewsletter}) /\ InitMainApp(Pages) /\ InitThemeToggle({BaseEnv})
SpecApp == InitApp /\ [][NextApp]_vars

\* ThemeToggle in every environment, on a page that is left alone
InitTheme ==
  InitFormValidator({DocNewsletter}) /\ InitMainApp({BasePage}) /\ InitThemeToggle(Envs)
SpecTheme == InitTheme /\ [][NextTheme]_vars

\* ------------------------------------------------------------ claim helpers
\* the inputs a form's Map holds
Tracked(f) ==
  {FormData(forms, f).fields[k].input : k \in 1..Len(FormData(forms, f).fields)}
AllTracked == UNION {Tracked(f) : f \in intercepting}

\* the Neutral state of a field: isValid false, no state class, neither
\* indicator shown
Shown(display) == display = "block"
NeutralIn(s, i) ==
  /\ ~s.field[i].isValid
  /\ ~s.field[i].error
  /\ ~s.field[i].success
  /\ ~Shown(s.indicator[doc.inputs[i].parent].errorDisplay)
  /\ ~Shown(s.indicator[doc.inputs[i].parent].successDisplay)
Neutral(i) == NeutralIn(View, i)

\* the rules the current value of input i fails
Failing(i) ==
  {k \in 1..Len(rules[i]) : ~runValidationRule(rules[i][k], trim(value[i]))}
Least(S) == CHOOSE k \in S : \A j \in S : k <= j

\* the last step ran validateField on input i alone
JustValidated(i) == lastEvent.type \in {"blur", "debounce"} /\ lastEvent.input = i

\* the last step was a submit event that handleSubmit handled
JustHandledSubmit == lastEvent.type = "submit" /\ lastEvent.prevented

\* ------------------------------------------------------------------- claims
\* C1: a submit event on a tracked form with at least one field that fails
\* validation does not run submitForm (the button and the pending submission
\* timeouts are as before the event) and leaves the focus on the first field,
\* in Map order, whose isValid is false.
C1_SubmissionGate ==
  (JustHandledSubmit /\ \E i \in Tracked(lastEvent.form) : Failing(i) # {}) =>
    LET f == lastEvent.form
        entries == FormData(forms, f).fields
        bad == {k \in 1..Len(entries) : ~field[entries[k].input].isValid}
    IN /\ ~lastEvent.submitted
       /\ btn[f] = lastEvent.btnBefore
       /\ Len(submitTimers[f]) = lastEvent.pendingBefore
       /\ bad # {}
       /\ focused = entries[Least(bad)].input

\* a blocked submit whose first invalid field is not the first field of the form
C1_Witness ==
  /\ JustHandledSubmit
  /\ ~lastEvent.submitted
  /\ Len(FormData(forms, lastEvent.form).fields) = 3
  /\ field[FormData(forms, lastEvent.form).fields[1].input].isValid
  /\ focused = FormData(forms, lastEvent.form).fields[2].input
  /\ ~field[FormData(forms, lastEvent.form).fields[3].input].isValid

\* C2: the rules of a field are in the order Required, Email, MinLength,
\* Pattern, Phone (those its attributes activate), and validateField leaves the
\* field Invalid showing the message of the first rule in that order that the
\* trimmed value fails, Valid when it fails none.
RuleOrder == <<"required", "email", "minlength", "pattern", "phone">>
RuleActive(input, type) ==
  CASE type = "required" -> input.required
    [] type = "email" -> input.type = "email"
    [] type = "minlength" -> input.hasMinlength
    [] type = "pattern" -> input.hasPattern
    [] type = "phone" -> input.key = "phone"
ActiveRuleOrder(input) ==
  LET Active(type) == RuleActive(input, type)
  IN SelectSeq(RuleOrder, Active)

C2_FirstFailingRuleInOrder ==
  \A i \in listening :
    /\ [k \in 1..Len(rules[i]) |-> rules[i][k].type] = ActiveRuleOrder(doc.inputs[i])
    /\ JustValidated(i) =>
         LET ind == indicator[doc.inputs[i].parent]
         IN IF Failing(i) = {}
              THEN /\ field[i] = [isValid |-> TRUE, error |-> FALSE, success |-> TRUE]
                   /\ Shown(ind.successDisplay)
                   /\ ~Shown(ind.errorDisplay)
              ELSE /\ field[i] = [isValid |-> FALSE, error |-> TRUE, success |-> FALSE]
                   /\ ind.errorText = rules[i][Least(Failing(i))].message
                   /\ Shown(ind.errorDisplay)
                   /\ ~Shown(ind.successDisplay)

\* a validation in which several rules fail and the first rule is not one of them
C2_Witness ==
  \E i \in listening :
    /\ JustValidated(i)
    /\ Cardinality(Failing(i)) >= 2
    /\ Least(Failing(i)) >= 2
    /\ field[i].error

\* C3: validating an empty or whitespace-only value of a field with a Required
\* rule leaves it Invalid with the Required message displayed, whatever other
\* rules the field has.
WhitespaceOnly(v) == \A k \in 1..Len(v) : IsSpace(v[k])

C3_RequiredOnBlank ==
  \A i \in listening :
    (JustValidated(i) /\ doc.inputs[i].required /\ WhitespaceOnly(value[i])) =>
      /\ field[i] = [isValid |-> FALSE, error |-> TRUE, success |-> FALSE]
      /\ indicator[doc.inputs[i].parent].errorText = getRequiredMessage(doc.inputs[i])
      /\ Shown(indicator[doc.inputs[i].parent].errorDisplay)

\* a whitespace-only value validated on a field that has all five rules
C3_Witness ==
  \E i \in listening :
    /\ JustValidated(i)
    /\ doc.inputs[i].required
    /\ value[i] = VBlank
    /\ Len(rules[i]) = 5
    /\ field[i].error

\* C4: a submit event that finds every tracked field valid starts the
\* submission: the submit button is disabled and labelled busy at once and a
\* timeout of SubmitDelay is pending; when that timeout runs, the form's inputs
\* are reset, every tracked field is Neutral and the button is enabled; and a
\* disabled button is always enabled again.
BusyButton == [textContent |-> "Submitting...", disabled |-> TRUE]

C4_Started ==
  (JustHandledSubmit /\ \A i \in Tracked(lastEvent.form) : Failing(i) = {}) =>
    LET f == lastEvent.form
    IN /\ lastEvent.submitted
       /\ Len(submitTimers[f]) = lastEvent.pendingBefore + 1
       /\ submitTimers[f][Len(submitTimers[f])].remaining = SubmitSteps
       /\ doc.forms[f].hasSubmitBtn => btn[f] = BusyButton

C4_Completed ==
  lastEvent.type = "submitted" =>
    LET f == lastEvent.form
    IN /\ \A i \in InputIds(doc) :
            doc.inputs[i].form = f => value[i] = doc.inputs[i].defaultValue
       /\ \A i \in Tracked(f) : Neutral(i)
       /\ doc.forms[f].hasSubmitBtn => ~btn[f].disabled

Submitting(f) == f \in FormIds(doc) /\ doc.forms[f].hasSubmitBtn /\ btn[f].disabled
Idle(f) == f \in FormIds(doc) /\ doc.forms[f].hasSubmitBtn /\ ~btn[f].disabled

C5_OriginalLabelRestored ==
  (lastEvent.type = "submitted" /\ doc.forms[lastEvent.form].hasSubmitBtn) =>
    btn[lastEvent.form].textContent = lastEvent.originalText

\* C6: every submit event on a form that carries data-validate is handled by
\* the validator, with the native submission prevented.
C6_EverySubmitIntercepted ==
  (lastEvent.type = "submit" /\ doc.forms[lastEvent.form].validate) =>
    lastEvent.prevented

\* C7: an email field has at most one debounce timeout pending; an input event
\* leaves exactly one, freshly set to the full wait; no debounced validation
\* runs while a timeout is pending, so none runs between the inputs of a
\* burst; the debounced validation runs once, DebounceWait after the last
\* input event.
IsDebounced(i) == i \in listening /\ doc.inputs[i].type = "email"

C7_Debounce ==
  \A i \in InputIds(doc) :
    /\ Cardinality(pending[i]) <= 1
    /\ (lastEvent.type = "input" /\ lastEvent.input = i /\ IsDebounced(i)) =>
         pending[i] = {[id |-> timeout[i], remaining |-> DebounceSteps]}
    /\ pending[i] # {} => debounced[i] = 0 /\ sinceInput[i] <= DebounceSteps
    /\ debounced[i] <= 1
    /\ (lastEvent.type = "debounce" /\ lastEvent.input = i) =>
         /\ IsDebounced(i)
         /\ sinceInput[i] = DebounceSteps
         /\ debounced[i] = 1
         /\ pending[i] = {}

\* the one debounced validation that follows a burst of input events
C7_Witness ==
  /\ lastEvent.type = "debounce"
  /\ burst[lastEvent.input] = 2
  /\ debounced[lastEvent.input] = 1
  /\ field[lastEvent.input].isValid

\* C8 as stated: right after an input or a change event on a tracked field the
\* field is Neutral.
C8_InputOrChangeClears ==
  (lastEvent.type \in {"input", "change"} /\ lastEvent.input \in AllTracked) =>
    Neutral(lastEvent.input)

\* C8 as amended: right after an input event on a tracked field the field is
\* Neutral, whatever its state before the event.
C8_InputClears ==
  (lastEvent.type = "input" /\ lastEvent.input \in AllTracked) =>
    Neutral(lastEvent.input)

\* an input event on a tracked field that was Valid
C8_Witness ==
  /\ lastEvent.type = "input"
  /\ lastEvent.input \in AllTracked
  /\ lastEvent.before = "valid"
  /\ Neutral(lastEvent.input)

\* C9: validateField run a second time on the same field, the value unchanged,
\* leaves the state the first run left and gives the same result.
C9_ValidateFieldIdempotent ==
  \A i \in listening :
    LET s1 == validateField(View, doc.inputs, rules, value, i)
        s2 == validateField(s1, doc.inputs, rules, value, i)
    IN /\ s2 = s1
       /\ s1.field[i].isValid = validateFieldResult(rules, value, i)
       /\ JustValidated(i) => s1 = View

\* a blur validates a field that an earlier validation left Invalid
C9_Witness ==
  /\ lastEvent.type = "blur"
  /\ lastEvent.input \in listening
  /\ lastEvent.before = "invalid"
  /\ field[lastEvent.input].error
  /\ Shown(indicator[doc.inputs[lastEvent.input].parent].errorDisplay)

\* C10: clearFieldState leaves a field Neutral whatever state it was in.
C10_ClearLeavesNeutral ==
  \A i \in InputIds(doc) : NeutralIn(clearFieldState(View, doc.inputs, i), i)

\* clearFieldState has run on a field that was Invalid
C10_Witness ==
  /\ lastEvent.type = "input"
  /\ lastEvent.input \in listening
  /\ lastEvent.before = "invalid"
  /\ Neutral(lastEvent.input)

\* the input, textarea and select descendants of form f
Descendants(f) == {i \in InputIds(doc) : doc.inputs[i].form = f}

\* C11: the fields Map of every initialized form holds exactly one entry for
\* each input, textarea and select descendant of the form, none missing and
\* none overwritten by another.
C11_FieldsCoverDescendants ==
  \A k \in 1..Len(forms) :
    /\ Tracked(forms[k].element) = Descendants(forms[k].element)
    /\ Len(forms[k].fields) = Cardinality(Descendants(forms[k].element))

\* what the user sees of field j in view s, with fieldData.isValid
Appearance(s, j) ==
  [isValid |-> s.field[j].isValid,
   errorClass |-> s.field[j].error,
   successClass |-> s.field[j].success,
   errorShown |-> Shown(s.indicator[doc.inputs[j].parent].errorDisplay),
   successShown |-> Shown(s.indicator[doc.inputs[j].parent].successDisplay),
   errorText |-> s.indicator[doc.inputs[j].parent].errorText]

\* C12: validateField, clearFieldState, setFieldError and setFieldSuccess on
\* one field leave the isValid flag, the state classes, the visibility of the
\* indicators and the error text of every other field as they were.
C12_FieldIndependence ==
  \A i \in listening : \A j \in listening \ {i} :
    /\ Appearance(validateField(View, doc.inputs, rules, value, i), j) = Appearance(View, j)
    /\ Appearance(clearFieldState(View, doc.inputs, i), j) = Appearance(View, j)
    /\ Appearance(setFieldSuccess(View, doc.inputs, i), j) = Appearance(View, j)
    /\ \A k \in 1..Len(rules[i]) :
         Appearance(setFieldError(View, doc.inputs, i, rules[i][k].message), j)
           = Appearance(View, j)

\* C13: a form has at most one simulated submission in flight: a submit event
\* that arrives while a submission timeout of the form is pending starts no
\* second one.
C13_OneSubmissionInFlight ==
  /\ \A f \in FormIds(doc) : Len(submitTimers[f]) <= 1
  /\ (JustHandledSubmit /\ lastEvent.pendingBefore > 0) =>
       Len(submitTimers[lastEvent.form]) = lastEvent.pendingBefore

\* the Valid and the Invalid state of a field: the flag, the state class and
\* the indicator that go with it
ValidIn(s, i) ==
  /\ s.field[i].isValid
  /\ s.field[i].success
  /\ ~s.field[i].error
  /\ Shown(s.indicator[doc.inputs[i].parent].successDisplay)
InvalidIn(s, i) ==
  /\ ~s.field[i].isValid
  /\ s.field[i].error
  /\ ~s.field[i].success
  /\ Shown(s.indicator[doc.inputs[i].parent].errorDisplay)

\* C14: validateForm validates every tracked field, the fields after a failing
\* one included, from the values alone; it returns true iff no tracked field
\* fails a rule; it leaves every tracked field Valid or Invalid, none Neutral.
C14_ValidateFormValidatesAll ==
  \A k \in 1..Len(forms) :
    LET s1 == validateForm(View, forms[k])
        tracked == Tracked(forms[k].element)
    IN /\ validateFormResult(forms[k]) <=> \A i \in tracked : Failing(i) = {}
       /\ \A i \in tracked :
            /\ s1.field[i].isValid <=> Failing(i) = {}
            /\ ValidIn(s1, i) \/ InvalidIn(s1, i)
            /\ ~NeutralIn(s1, i)

\* C15: an input whose pattern attribute is not a regular expression gets no
\* FieldState and no listeners, while every other input of the forms that
\* carry data-validate is initialized and every such form has its submit
\* listener.
C15_MalformedPatternAbortsFieldOnly ==
  \A i \in InputIds(doc) :
    (doc.forms[doc.inputs[i].form].validate /\ getValidationRulesThrows(doc.inputs[i])) =>
      /\ i \notin listening
      /\ i \notin AllTracked
      /\ \A j \in InputIds(doc) \ {i} :
           (doc.forms[doc.inputs[j].form].validate
              /\ ~getValidationRulesThrows(doc.inputs[j]))
             => j \in listening /\ j \in AllTracked
      /\ \A f \in FormIds(doc) : doc.forms[f].validate => f \in intercepting

\* C16: after a submit event that handleSubmit handled, formData.isValid is
\* true iff fieldData.isValid is true for every field of the form's Map.
C16_FormIsValidDerived ==
  JustHandledSubmit =>
    (FormData(forms, lastEvent.form).isValid
       <=> \A i \in Tracked(lastEvent.form) : field[i].isValid)

\* C17: a field without a Required rule whose trimmed value is empty passes
\* every rule it has and validates to Valid, whichever of the Email, MinLength,
\* Pattern and Phone rules it carries.
C17_EmptyPassesOptionalRules ==
  \A i \in listening :
    (~doc.inputs[i].required /\ trim(value[i]) = <<>>) =>
      /\ \A k \in 1..Len(rules[i]) : runValidationRule(rules[i][k], trim(value[i]))
      /\ validateFieldResult(rules, value, i)
      /\ ValidIn(validateField(View, doc.inputs, rules, value, i), i)
      /\ JustValidated(i) => ValidIn(View, i)

\* a blur has validated a whitespace-only value against the four optional rules
C17_Witness ==
  /\ lastEvent.type = "blur"
  /\ lastEvent.input \in listening
  /\ ~doc.inputs[lastEvent.input].required
  /\ value[lastEvent.input] = VBlank
  /\ {rules[lastEvent.input][k].type : k \in 1..Len(rules[lastEvent.input])}
       = {"email", "minlength", "pattern", "phone"}
  /\ ValidIn(View, lastEvent.input)

\* C18: for every tracked field, isValid is true iff the success class is on
\* the field iff the success indicator is shown; the error class is on the
\* field iff the error indicator is shown, and then isValid is false; the two
\* indicators, and the two classes, are never both present.
C18_LogicalAndVisualAgree ==
  \A i \in AllTracked :
    LET a == Appearance(View, i)
    IN /\ a.isValid <=> a.successClass
       /\ a.successClass <=> a.successShown
       /\ a.errorClass <=> a.errorShown
       /\ a.errorClass => ~a.isValid
       /\ ~(a.errorShown /\ a.successShown)
       /\ ~(a.errorClass /\ a.successClass)

\* C19: from the moment the submission timeout has reset a form until the next
\* blur, input or submit event on the form, every tracked field of the form
\* is Neutral: no debounce timeout left pending marks a field of the reset form.
C19_ResetFormStaysNeutral ==
  \A f \in intercepting : fresh[f] => \A i \in Tracked(f) : Neutral(i)

\* the drawer, a modal or the lightbox is open
Overlaid == app.navOpen \/ app.activeModals # {} \/ app.lightboxActive

\* C20: page scrolling is locked (body overflow hidden) in every reachable
\* state in which the mobile navigation drawer, a modal or the lightbox is open.
C20_ScrollLockedWhileOverlaid ==
  Overlaid => app.overflow = "hidden"

\* C21: once the lightbox has been opened from a trigger, and after any
\* navigation, currentLightboxIndex is an index of the collected list and the
\* image shown is the entry at that index; next from the last image goes to
\* the first, prev from the first to the last, and next followed by prev, or
\* prev by next, comes back to the same image.
C21_LightboxIndexInRange ==
  LET images == app.currentLightboxImages
      n == Len(images)
      next == lightboxNav(app, "next")
      prev == lightboxNav(app, "prev")
  IN (app.lightboxActive \/ images # <<>>) =>
       /\ n >= 1
       /\ images = page.images
       /\ app.currentLightboxIndex \in 0..(n - 1)
       /\ app.src = images[app.currentLightboxIndex + 1]
       /\ next.currentLightboxIndex \in 0..(n - 1)
       /\ prev.currentLightboxIndex \in 0..(n - 1)
       /\ next.src = images[next.currentLightboxIndex + 1]
       /\ prev.src = images[prev.currentLightboxIndex + 1]
       /\ (n > 1 /\ app.currentLightboxIndex = n - 1) => next.currentLightboxIndex = 0
       /\ (n > 1 /\ app.currentLightboxIndex = 0) => prev.currentLightboxIndex = n - 1
       /\ lightboxNav(next, "prev") = app
       /\ lightboxNav(prev, "next") = app

\* next on the last of three images has brought back the first
C21_Witness ==
  /\ appEvent = "lightboxNext"
  /\ app.lightboxActive
  /\ Len(app.currentLightboxImages) = 3
  /\ app.currentLightboxIndex = 0
  /\ app.src = "a.jpg"
  /\ lightboxNav(app, "prev").src = "c.jpg"

\* C22: once ThemeToggle is constructed, and after every toggle and every
\* change of the system preference, currentTheme is "light" or "dark", the
\* root element carries exactly one of theme--dark and theme--light, the one
\* of currentTheme, and once the theme has been toggled the item stored in
\* localStorage equals currentTheme.
C22_ExactlyOneThemeClass ==
  /\ currentTheme \in {"light", "dark"}
  /\ Cardinality(rootClasses \cap ThemeClasses) = 1
  /\ currentTheme = "dark" => rootClasses = {"theme--dark"}
  /\ currentTheme = "light" => rootClasses = {"theme--light"}
  /\ themeEvent.type \in {"click", "shortcut"} => stored = currentTheme
  /\ toggled => stored = currentTheme

\* the markup carried both classes and "light" was stored; a click on the
\* toggle has made the theme dark
C22_Witness ==
  /\ env.rootClasses = ThemeClasses
  /\ env.stored = "light"
  /\ themeEvent.type = "click"
  /\ themeEvent.currentTheme = "light"
  /\ currentTheme = "dark"
  /\ rootClasses = {"theme--dark"}
  /\ stored = "dark"

\* C23: a change of the system colour scheme preference changes the applied
\* theme only while localStorage holds no theme, and then the applied theme
\* becomes the preferred one and nothing is stored; once the theme has been
\* toggled a theme is stored from then on, and every later change of the
\* preference leaves currentTheme, the root classes and the stored item as
\* they were.
C23_StoredThemeIgnoresSystem ==
  /\ [](toggled => [](stored # Null))
  /\ [][prefersDark' # prefersDark =>
          /\ stored # Null => UNCHANGED <<currentTheme, rootClasses, stored>>
          /\ stored = Null =>
               /\ currentTheme' = getPreferredTheme(prefersDark')
               /\ currentTheme' # currentTheme
               /\ stored' = Null]_vars

\* nothing was stored when the page loaded, the theme has been toggled, and
\* the system preference has then changed to the other theme: the applied
\* theme and the stored item are those from before the change
C23_Witness ==
  /\ env.stored = Null
  /\ toggled
  /\ themeEvent.type = "change"
  /\ themeEvent.stored # Null
  /\ stored = themeEvent.stored
  /\ currentTheme = themeEvent.currentTheme
  /\ rootClasses = themeEvent.rootClasses
  /\ currentTheme # getPreferredTheme(prefersDark)
====
